---------------------------- MODULE Spec2Model ----------------------------
(***************************************************************************)
(* zeus-core: the route-extraction engine (src/src/index.ts) and the       *)
(* snapshot writer (src/src/output.ts).                                    *)
(*                                                                         *)
(* Source text is a sequence of lexemes: the punctuation the regular       *)
(* expressions of index.ts look at is one lexeme per character, a run of   *)
(* word characters (\w+) is one lexeme, a quoted path body and a JSON      *)
(* literal are one lexeme each.  Offsets (match.index, lastIndex) count    *)
(* lexemes from 0, as the source counts characters from 0.                 *)
(***************************************************************************)
EXTENDS Integers, Sequences, FiniteSets, TLC

VARIABLES
    lastIndex,   \* lastIndex of each module-level /g regular expression
    docHistory,  \* parseDocBlock: the blocks passed so far, in call order
    docResult,   \* parseDocBlock: the value returned by the latest call
    docBlock,    \* extractDocBlock: the latest call and the value it returned
    tree,        \* the files readAllFiles yields, in discovery order
    plugins,     \* the plugin list handed to scanBackendProject
    pc,          \* where the running scan is
    fileIdx,     \* index of the file the for-loop of the scan is at
    endpoints,   \* the scan's endpoints array
    warnings,    \* the scan's warnings array
    results,     \* outcomes of the scans completed so far, in order
    callLog,     \* history: the match and extract calls of the running scan
    disk,        \* <rootDir>/.zeus-core/output.json
    wr,          \* the latest writeOutputJson call: input and outcome
    layout,      \* readAllFiles: the directory tree, what readdir yields per directory
    reads,       \* readAllFiles: per directory, where its call is and its files array
    cli          \* the latest run of the generate command

vars == <<lastIndex, docHistory, docResult, docBlock, tree, plugins, pc, fileIdx,
          endpoints, warnings, results, callLog, disk, wr, layout, reads, cli>>

---------------------------------------------------------------------------
(* Bounds *)

MaxDocCalls == 3
MaxFiles == 2
MaxScans == 2
MaxEndpoints == 2
MaxSubdirs == 3

---------------------------------------------------------------------------
(* Lexemes *)

EOF == "<eof>"

At(s, i) == IF i >= 0 /\ i < Len(s) THEN s[i + 1] ELSE EOF

Slice(s, from, to) == SubSeq(s, from + 1, to)

IsSpace(t) == t \in {" ", "\n"}

\* The three quote characters; the backquote is written "<backquote>".
Quotes == {"\"", "'", "<backquote>"}

IsQuote(t) == t \in Quotes

WordTokens ==
    {"express", "Router", "fastify", "Controller", "app", "router", "handler",
     "get", "post", "put", "delete", "patch", "Get", "Post", "Put", "Delete",
     "GET", "POST", "PUT", "DELETE", "route", "method", "url",
     "param", "responseExample", "requestBody",
     "string", "number", "status", "id", "List", "users", "Create", "user",
     "ok", "200", "201", "404", "null", "const", "class", "export"}

IsWord(t) == t \in WordTokens

LowerTable ==
    [t \in {"Get", "GET"} |-> "get"] @@ [t \in {"Post", "POST"} |-> "post"] @@
    [t \in {"Put", "PUT"} |-> "put"] @@ [t \in {"Delete", "DELETE"} |-> "delete"] @@
    [t \in {"Router"} |-> "router"] @@ [t \in {"Controller"} |-> "controller"] @@
    [t \in {"List"} |-> "list"] @@ [t \in {"Create"} |-> "create"]

ToLowerCase(t) == IF t \in DOMAIN LowerTable THEN LowerTable[t] ELSE t

UpperTable ==
    [t \in {"get", "Get"} |-> "GET"] @@ [t \in {"post", "Post"} |-> "POST"] @@
    [t \in {"put", "Put"} |-> "PUT"] @@ [t \in {"delete", "Delete"} |-> "DELETE"] @@
    [t \in {"patch"} |-> "PATCH"]

\* A toUpperCase that leaves its argument as it is.
ToUpperCaseKeep(t) == t

ToUpperCase(t) == IF t \in DOMAIN UpperTable THEN UpperTable[t] ELSE t

Min(S) == CHOOSE x \in S : \A y \in S : x <= y

Max(S) == CHOOSE x \in S : \A y \in S : x >= y

\* \s* at offset i, greedy: the offset of the first lexeme that is no space.
SkipSpace(s, i) ==
    IF i >= Len(s) THEN i
    ELSE CHOOSE j \in i..Len(s) :
            /\ \A k \in i..(j - 1) : IsSpace(At(s, k))
            /\ ~IsSpace(At(s, j))

\* The offset of the first lexeme at or after i that is in the class, or
\* Len(s).
FirstIn(s, i, class) ==
    IF i >= Len(s) THEN Len(s)
    ELSE CHOOSE j \in i..Len(s) :
            /\ \A k \in i..(j - 1) : At(s, k) \notin class
            /\ (j < Len(s) => At(s, j) \in class)

\* \b before the word lexeme at offset i.
WordBoundaryBefore(s, i) == i = 0 \/ ~IsWord(At(s, i - 1))

NoMatch == [ok |-> FALSE, index |-> 0, end |-> 0, g1 |-> <<>>, g2 |-> <<>>]

Match(i, e, a, b) == [ok |-> TRUE, index |-> i, end |-> e, g1 |-> a, g2 |-> b]

\* RegExp.prototype.exec of a /g expression, attempts[i] being its attempt
\* at offset i of the string: the leftmost match at or after lastIndex; a
\* lastIndex past the end fails.
ExecFrom(li, attempts) ==
    LET hits == {i \in DOMAIN attempts : i >= li /\ attempts[i].ok}
    IN  IF hits = {} THEN NoMatch ELSE attempts[Min(hits)]

\* lastIndex after exec (and after test, which is exec): the end of the
\* match, or 0 after a failure.
LastIndexAfter(m) == IF m.ok THEN m.end ELSE 0

---------------------------------------------------------------------------
(* Values *)

\* An optional string: undefined, or the string (a lexeme sequence).
Undefined == [defined |-> FALSE, text |-> <<>>]

Str(text) == [defined |-> TRUE, text |-> text]

\* String.prototype.trim
RECURSIVE TrimStart(_)
TrimStart(s) ==
    IF s # <<>> /\ IsSpace(Head(s)) THEN TrimStart(Tail(s)) ELSE s

RECURSIVE TrimEnd(_)
TrimEnd(s) ==
    IF s # <<>> /\ IsSpace(s[Len(s)]) THEN TrimEnd(SubSeq(s, 1, Len(s) - 1)) ELSE s

Trim(s) == TrimEnd(TrimStart(s))

\* block.split("\n")
RECURSIVE SplitLines(_)
SplitLines(s) ==
    LET nl == FirstIn(s, 0, {"\n"})
    IN  IF nl >= Len(s) THEN <<s>>
        ELSE <<Slice(s, 0, nl)>> \o SplitLines(Slice(s, nl + 1, Len(s)))

\* lines.join(" ")
RECURSIVE Join(_)
Join(lines) ==
    IF lines = <<>> THEN <<>>
    ELSE IF Len(lines) = 1 THEN lines[1]
    ELSE lines[1] \o <<" ">> \o Join(Tail(lines))

\* The JSON literals of the sample texts, and JSON.parse of a string: a value
\* (an object, or null for the literal null), or a SyntaxError.
JsonObjectTexts == {"{\"users\":[]}", "{\"name\":\"string\"}", "{\"id\":1}"}

JsonNullTexts == {"null"}

JSONParse(raw) ==
    [ok |-> Len(raw) = 1 /\ raw[1] \in JsonObjectTexts \cup JsonNullTexts,
     isNull |-> Len(raw) = 1 /\ raw[1] \in JsonNullTexts]

\* \d{3} followed by white space: the three-digit lexemes.
StatusTokens == {"200", "201", "404"}

StatusNumber == [t \in StatusTokens |->
                    CASE t = "200" -> 200 [] t = "201" -> 201 [] t = "404" -> 404]

---------------------------------------------------------------------------
(* detectParameterType *)

\* raw.toLowerCase().includes(word): the words a type lexeme contains.
Includes(raw, word) ==
    \E k \in 1..Len(raw) :
        LET t == ToLowerCase(raw[k])
        IN  \/ t = word
            \/ word = "int" /\ t \in {"integer", "int32"}
            \/ word = "bool" /\ t = "boolean"

detectParameterType(raw) ==
    IF Includes(raw, "string") THEN "string"
    ELSE IF Includes(raw, "number") \/ Includes(raw, "int") \/ Includes(raw, "float")
         THEN "number"
    ELSE IF Includes(raw, "boolean") \/ Includes(raw, "bool") THEN "boolean"
    ELSE IF Includes(raw, "array") THEN "array"
    ELSE IF Includes(raw, "object") THEN "object"
    ELSE "unknown"

---------------------------------------------------------------------------
(* The regular expressions of the documentation parser *)

\* One attempt of PARAM_JSDOC_REGEX at offset i: "@param", white space, a
\* braced type that holds no closing brace, white space, a word.
ParamMatchAt(s, i) ==
    LET a == SkipSpace(s, i + 2)
        c == FirstIn(s, a + 1, {"}"})
        b == SkipSpace(s, c + 1)
    IN  IF /\ At(s, i) = "@" /\ At(s, i + 1) = "param"
           /\ a > i + 2 /\ At(s, a) = "{"
           /\ c > a + 1 /\ At(s, c) = "}"
           /\ b > c + 1 /\ IsWord(At(s, b))
        THEN Match(i, b + 1, Slice(s, a + 1, c), <<At(s, b)>>)
        ELSE NoMatch

\* The attempts of the expression at every offset of s.
PARAM_JSDOC_REGEX(s) == [i \in 0..Len(s) |-> ParamMatchAt(s, i)]

\* The lookahead that ends an annotation body: "@", or the block's close.
AnnotationEnd(s, e) == At(s, e) = "@" \/ (At(s, e) = "*" /\ At(s, e + 1) = "/")

\* The lazy body from offset b: it stops at the first offset the lookahead
\* accepts; -1 when there is none.
BodyEnd(s, b) ==
    LET ends == {e \in b..Len(s) : AnnotationEnd(s, e)}
    IN  IF ends = {} THEN -1 ELSE Min(ends)

\* One attempt of RESPONSE_EXAMPLE_REGEX at offset i.
ResponseMatchAt(s, i) ==
    LET a == SkipSpace(s, i + 2)
        b == SkipSpace(s, a + 1)
        e == BodyEnd(s, b)
    IN  IF /\ At(s, i) = "@" /\ At(s, i + 1) = "responseExample"
           /\ a > i + 2 /\ At(s, a) \in StatusTokens
           /\ b > a + 1 /\ e >= b
        THEN Match(i, e, <<At(s, a)>>, Slice(s, b, e))
        ELSE NoMatch

\* The attempts of the expression at every offset of s.
RESPONSE_EXAMPLE_REGEX(s) == [i \in 0..Len(s) |-> ResponseMatchAt(s, i)]

\* One attempt of REQUEST_SCHEMA_REGEX at offset i.
RequestMatchAt(s, i) ==
    LET a == SkipSpace(s, i + 2)
        e == BodyEnd(s, a)
    IN  IF /\ At(s, i) = "@" /\ At(s, i + 1) = "requestBody"
           /\ a > i + 2 /\ e >= a
        THEN Match(i, e, Slice(s, a, e), <<>>)
        ELSE NoMatch

\* The attempts of the expression at every offset of s.
REQUEST_SCHEMA_REGEX(s) == [i \in 0..Len(s) |-> RequestMatchAt(s, i)]

\* One attempt of COMMENT_BLOCK_REGEX at offset i: the opening, then lazily
\* up to the first close that starts at or after i + 3.
CommentMatchAt(s, i) ==
    LET closes == {j \in (i + 3)..Len(s) : At(s, j) = "*" /\ At(s, j + 1) = "/"}
    IN  IF /\ At(s, i) = "/" /\ At(s, i + 1) = "*" /\ At(s, i + 2) = "*"
           /\ closes # {}
        THEN Match(i, Min(closes) + 2, Slice(s, i, Min(closes) + 2), <<>>)
        ELSE NoMatch

\* The attempts of the expression at every offset of s.
COMMENT_BLOCK_REGEX(s) == [i \in 0..Len(s) |-> CommentMatchAt(s, i)]

\* String.prototype.match with a /g expression: every match, left to right,
\* each search starting where the previous match ended (lastIndex is reset
\* to 0 first and is 0 afterwards).
RECURSIVE MatchAll(_, _)
MatchAll(s, from) ==
    LET m == ExecFrom(from, COMMENT_BLOCK_REGEX(s))
    IN  IF m.ok THEN <<m.g1>> \o MatchAll(s, m.end) ELSE <<>>

---------------------------------------------------------------------------
(* extractDocBlock and parseDocBlock *)

\* A block or null.
NullBlock == [isNull |-> TRUE, text |-> <<>>]

Block(text) == [isNull |-> FALSE, text |-> text]

\* extractDocBlock without the slice: the blocks of the whole content.
extractDocBlockWhole(content, index) ==
    LET matches == MatchAll(content, 0)
    IN  IF Len(matches) = 0 THEN NullBlock ELSE Block(matches[Len(matches)])

extractDocBlock(content, index) ==
    LET upToIndex == Slice(content, 0, index)
        matches == MatchAll(upToIndex, 0)
    IN  IF Len(matches) = 0 THEN NullBlock ELSE Block(matches[Len(matches)])

\* line.replace(/^\s*\*\s?/, ""): leading white space, one star and at most
\* one white space after it are removed when the line starts that way.
StripDecoration(line) ==
    LET j == SkipSpace(line, 0)
        k == IF IsSpace(At(line, j + 1)) THEN j + 2 ELSE j + 1
    IN  IF At(line, j) = "*" THEN Slice(line, k, Len(line)) ELSE line

StartsWithAt(line) == line # <<>> /\ line[1] = "@"

KeepLine(line) == line # <<>> /\ ~StartsWithAt(line)

RECURSIVE MapStripTrim(_)
MapStripTrim(lines) ==
    IF lines = <<>> THEN <<>>
    ELSE <<Trim(StripDecoration(Head(lines)))>> \o MapStripTrim(Tail(lines))

DescriptionOf(block) ==
    LET descriptionLines == SelectSeq(MapStripTrim(SplitLines(block)), KeepLine)
        joined == Trim(Join(descriptionLines))
    IN  IF joined = <<>> THEN Undefined ELSE Str(joined)

NullResponse == [isNull |-> TRUE, status |-> 0, json |-> FALSE, example |-> <<>>]

Response(status, json, example) ==
    [isNull |-> FALSE, status |-> status, json |-> json, example |-> example]

\* requestBodySchema: null, the parsed JSON object, or {schema: raw}.
NullSchema == [kind |-> "null", text |-> <<>>]

\* The while loop over PARAM_JSDOC_REGEX.exec, entered with lastIndex li.
RECURSIVE ParamLoop(_, _, _)
ParamLoop(block, li, params) ==
    LET Step(m) ==
            IF ~m.ok THEN [params |-> params, li |-> 0]
            ELSE IF m.g2 = <<>> THEN ParamLoop(block, m.end, params)
            ELSE ParamLoop(block, m.end,
                     Append(params, [name |-> m.g2[1],
                                     type |-> detectParameterType(m.g1),
                                     required |-> ~(\E k \in 1..Len(m.g1) : m.g1[k] = "=")]))
    IN  Step(ExecFrom(li, PARAM_JSDOC_REGEX(block)))

ResponseOf(responseMatch) ==
    IF ~responseMatch.ok THEN NullResponse
    ELSE LET exampleRaw == Trim(responseMatch.g2)
         IN  IF JSONParse(exampleRaw).ok
             THEN Response(StatusNumber[responseMatch.g1[1]], TRUE, exampleRaw)
             ELSE Response(StatusNumber[responseMatch.g1[1]], FALSE, exampleRaw)

SchemaOf(requestMatch) ==
    IF ~requestMatch.ok THEN NullSchema
    ELSE LET schemaRaw == Trim(requestMatch.g1)
         IN  IF JSONParse(schemaRaw).ok
             THEN IF JSONParse(schemaRaw).isNull THEN NullSchema
                  ELSE [kind |-> "json", text |-> schemaRaw]
             ELSE [kind |-> "schema", text |-> schemaRaw]

EmptyDoc ==
    [description |-> Undefined, params |-> <<>>,
     requestBodySchema |-> NullSchema, response |-> NullResponse]

\* parseDocBlock called with the regular expressions' lastIndex li: the
\* value it returns and the lastIndex it leaves.
parseDocBlock(block, li) ==
    IF block.isNull \/ block.text = <<>> THEN [doc |-> EmptyDoc, li |-> li]
    ELSE LET Parsed(loop, responseMatch, requestMatch) ==
                 [doc |-> [description |-> DescriptionOf(block.text),
                           params |-> loop.params,
                           requestBodySchema |-> SchemaOf(requestMatch),
                           response |-> ResponseOf(responseMatch)],
                  li |-> [li EXCEPT !.param = loop.li,
                                    !.response = LastIndexAfter(responseMatch),
                                    !.request = LastIndexAfter(requestMatch)]]
         IN  Parsed(ParamLoop(block.text, li.param, <<>>),
                    ExecFrom(li.response, RESPONSE_EXAMPLE_REGEX(block.text)),
                    ExecFrom(li.request, REQUEST_SCHEMA_REGEX(block.text)))

---------------------------------------------------------------------------
(* The regular expressions of the three matchers *)

HTTP_METHODS == {"GET", "POST", "PUT", "DELETE"}

VerbWords == {"get", "post", "put", "delete"}

\* One attempt of ROUTE_METHOD_REGEX at offset i (case-insensitive): a verb
\* at a word boundary, "(", a quote, one or more lexemes that are no quote,
\* a quote; white space may surround the parenthesis.
RouteMatchAt(s, i) ==
    LET b == SkipSpace(s, i + 1)
        c == SkipSpace(s, b + 1)
        d == FirstIn(s, c + 1, Quotes)
    IN  IF /\ ToLowerCase(At(s, i)) \in VerbWords /\ WordBoundaryBefore(s, i)
           /\ At(s, b) = "(" /\ IsQuote(At(s, c))
           /\ d > c + 1 /\ d < Len(s)
        THEN Match(i, d + 1, <<At(s, i)>>, Slice(s, c + 1, d))
        ELSE NoMatch

\* The attempts of the expression at every offset of s.
ROUTE_METHOD_REGEX(s) == [i \in 0..Len(s) |-> RouteMatchAt(s, i)]

\* method : "VERB" at offset j.
MethodFieldAt(s, j) ==
    LET a == SkipSpace(s, j + 1)
        b == SkipSpace(s, a + 1)
    IN  IF /\ ToLowerCase(At(s, j)) = "method" /\ At(s, a) = ":"
           /\ IsQuote(At(s, b)) /\ ToLowerCase(At(s, b + 1)) \in VerbWords
           /\ IsQuote(At(s, b + 2))
        THEN Match(j, b + 3, <<At(s, b + 1)>>, <<>>)
        ELSE NoMatch

\* url : "PATH" at offset j.
UrlFieldAt(s, j) ==
    LET a == SkipSpace(s, j + 1)
        b == SkipSpace(s, a + 1)
        d == FirstIn(s, b + 1, Quotes)
    IN  IF /\ ToLowerCase(At(s, j)) = "url" /\ At(s, a) = ":"
           /\ IsQuote(At(s, b)) /\ d > b + 1 /\ d < Len(s)
        THEN Match(j, d + 1, <<>>, Slice(s, b + 1, d))
        ELSE NoMatch

\* The closing brace and parenthesis at offset j.
CloseAt(s, j) ==
    LET a == SkipSpace(s, j + 1)
    IN  IF At(s, j) = "}" /\ At(s, a) = ")" THEN Match(j, a + 1, <<>>, <<>>) ELSE NoMatch

\* One attempt of FASTIFY_ROUTE_REGEX at offset i (case-insensitive): route
\* ( { ... method: "VERB" ... url: "PATH" ... } ), each gap lazy: the first
\* method field after which a url field and a close follow, then the first
\* such url field, then the first close.
FastifyMatchAt(s, i) ==
    IF ~(ToLowerCase(At(s, i)) = "route" /\ WordBoundaryBefore(s, i)) THEN NoMatch
    ELSE
    LET b == SkipSpace(s, i + 1)
        c == SkipSpace(s, b + 1)
        Closes(from) == {j \in from..Len(s) : CloseAt(s, j).ok}
        Urls(from) == {j \in from..Len(s) :
                          UrlFieldAt(s, j).ok /\ Closes(UrlFieldAt(s, j).end) # {}}
        Methods(from) == {j \in from..Len(s) :
                             MethodFieldAt(s, j).ok /\ Urls(MethodFieldAt(s, j).end) # {}}
    IN  IF At(s, b) = "(" /\ At(s, c) = "{" /\ Methods(c + 1) # {}
        THEN LET m == MethodFieldAt(s, Min(Methods(c + 1)))
                 u == UrlFieldAt(s, Min(Urls(m.end)))
                 z == CloseAt(s, Min(Closes(u.end)))
             IN  Match(i, z.end, m.g1, u.g2)
        ELSE NoMatch

\* The attempts of the expression at every offset of s.
FASTIFY_ROUTE_REGEX(s) == [i \in 0..Len(s) |-> FastifyMatchAt(s, i)]

NestVerbs == {"Get", "Post", "Put", "Delete"}

\* One attempt of NEST_DECORATOR_REGEX at offset i (case-sensitive): @Verb (
\* a quote, the longest run k of lexemes that are no quote after which an
\* optional quote and the closing parenthesis follow.
NestMatchAt(s, i) ==
    IF ~(At(s, i) = "@" /\ At(s, i + 1) \in NestVerbs) THEN NoMatch
    ELSE
    LET b == SkipSpace(s, i + 2)
        c == SkipSpace(s, b + 1)
        dmax == FirstIn(s, c + 1, Quotes)
        AfterQuote(k) == IF IsQuote(At(s, k)) THEN k + 1 ELSE k
        ks == {k \in (c + 1)..dmax : At(s, SkipSpace(s, AfterQuote(k))) = ")"}
    IN  IF At(s, b) = "(" /\ IsQuote(At(s, c)) /\ ks # {}
        THEN Match(i, SkipSpace(s, AfterQuote(Max(ks))) + 1,
                   <<At(s, i + 1)>>, Slice(s, c + 1, Max(ks)))
        ELSE NoMatch

\* The attempts of the expression at every offset of s.
NEST_DECORATOR_REGEX(s) == [i \in 0..Len(s) |-> NestMatchAt(s, i)]

---------------------------------------------------------------------------
(* The three extractors.  Each is the while loop over exec of its regular  *)
(* expression, entered with the lastIndex record li; it returns the        *)
(* endpoints and the lastIndex record it leaves.                           *)

Endpoint(method, routePath, doc, framework, filePath) ==
    [method |-> method, path |-> routePath, description |-> doc.description,
     parameters |-> doc.params, requestBodySchema |-> doc.requestBodySchema,
     response |-> doc.response, framework |-> framework, sourceFile |-> filePath]

RECURSIVE ExpressLoop(_, _, _, _)
ExpressLoop(filePath, content, li, eps) ==
    LET Push(match, parsed) ==
            ExpressLoop(filePath, content, parsed.li,
                Append(eps, Endpoint(ToUpperCase(match.g1[1]),
                                     match.g2,
                                     parsed.doc, "express", filePath)))
        Step(match, after) ==
            IF ~match.ok THEN [endpoints |-> eps, li |-> after]
            ELSE IF ToUpperCase(match.g1[1]) \notin HTTP_METHODS \/ match.g2 = <<>>
                 THEN ExpressLoop(filePath, content, after, eps)
                 ELSE Push(match,
                           parseDocBlock(extractDocBlock(content, match.index), after))
        Exec(match) == Step(match, [li EXCEPT !.route = LastIndexAfter(match)])
    IN  Exec(ExecFrom(li.route, ROUTE_METHOD_REGEX(content)))

extractExpressRoutes(filePath, content, li) == ExpressLoop(filePath, content, li, <<>>)

RECURSIVE FastifyLoop(_, _, _, _)
FastifyLoop(filePath, content, li, eps) ==
    LET Push(match, parsed) ==
            FastifyLoop(filePath, content, parsed.li,
                Append(eps, Endpoint(ToUpperCase(match.g1[1]),
                                     match.g2,
                                     parsed.doc, "fastify", filePath)))
        Step(match, after) ==
            IF ~match.ok THEN [endpoints |-> eps, li |-> after]
            ELSE IF ToUpperCase(match.g1[1]) \notin HTTP_METHODS \/ match.g2 = <<>>
                 THEN FastifyLoop(filePath, content, after, eps)
                 ELSE Push(match,
                           parseDocBlock(extractDocBlock(content, match.index), after))
        Exec(match) == Step(match, [li EXCEPT !.fastify = LastIndexAfter(match)])
    IN  Exec(ExecFrom(li.fastify, FASTIFY_ROUTE_REGEX(content)))

extractFastifyRoutes(filePath, content, li) == FastifyLoop(filePath, content, li, <<>>)

RECURSIVE NestLoop(_, _, _, _)
NestLoop(filePath, content, li, eps) ==
    LET Push(match, parsed) ==
            NestLoop(filePath, content, parsed.li,
                Append(eps, Endpoint(ToUpperCase(match.g1[1]),
                                     IF match.g2 = <<>> THEN <<"/">> ELSE match.g2,
                                     parsed.doc, "nestjs", filePath)))
        Step(match, after) ==
            IF ~match.ok THEN [endpoints |-> eps, li |-> after]
            ELSE IF ToUpperCase(match.g1[1]) \notin HTTP_METHODS
                 THEN NestLoop(filePath, content, after, eps)
                 ELSE Push(match,
                           parseDocBlock(extractDocBlock(content, match.index), after))
        Exec(match) == Step(match, [li EXCEPT !.nest = LastIndexAfter(match)])
    IN  Exec(ExecFrom(li.nest, NEST_DECORATOR_REGEX(content)))

extractNestRoutes(filePath, content, li) == NestLoop(filePath, content, li, <<>>)

---------------------------------------------------------------------------
(* Plugins.  A FrameworkPlugin is a name with a match and an extract       *)
(* function; kind selects the pair of functions.  The three built-in kinds *)
(* are those of createDefaultPlugins; the others are caller-supplied       *)
(* plugins: one that returns a fixed endpoint, one that applies and finds  *)
(* nothing, one whose extract throws, one whose match throws.              *)

createDefaultPlugins ==
    << [name |-> "express", kind |-> "express"],
       [name |-> "fastify", kind |-> "fastify"],
       [name |-> "nestjs", kind |-> "nestjs"] >>

StaticPlugin == [name |-> "static", kind |-> "static"]

EmptyPlugin == [name |-> "empty", kind |-> "empty"]

ThrowingExtractPlugin == [name |-> "boom", kind |-> "throwsInExtract"]

ThrowingMatchPlugin == [name |-> "badmatch", kind |-> "throwsInMatch"]

TsPaths == {"/p/users.controller.ts", "/p/util.ts", "/p/mixed.ts", "/p/paths.controller.ts"}

\* filePath.endsWith(".ts")
EndsWithTs(filePath) == filePath \in TsPaths

HasToken(content, t) == \E k \in 1..Len(content) : content[k] = t

\* /@Controller\b/.test(content)
HasController(content) ==
    \E k \in 1..(Len(content) - 1) : content[k] = "@" /\ content[k + 1] = "Controller"

StaticEndpoint(filePath) ==
    [method |-> "GET", path |-> <<"/users">>, description |-> Undefined,
     parameters |-> <<>>, requestBodySchema |-> NullSchema, response |-> NullResponse,
     framework |-> "static", sourceFile |-> filePath]

\* What the caller-supplied plugins do on a file.
CustomApplies(plugin, file) ==
    CASE plugin.kind = "static" -> TRUE
      [] plugin.kind = "empty" -> TRUE
      [] plugin.kind = "throwsInExtract" -> ~EndsWithTs(file.path)
      [] OTHER -> FALSE

CustomMatchThrows(plugin, file) ==
    plugin.kind = "throwsInMatch" /\ EndsWithTs(file.path)

CustomExtractThrows(plugin, file) == plugin.kind = "throwsInExtract"

\* plugin.match(filePath, content) called with lastIndex li: whether it
\* threw, what it returned, and the lastIndex it leaves.  A && whose left
\* side is false does not call test.
PluginMatch(plugin, file, li) ==
    CASE plugin.kind = "express" ->
            IF HasToken(file.content, "express") \/ HasToken(file.content, "Router")
            THEN LET m == ExecFrom(li.route, ROUTE_METHOD_REGEX(file.content))
                 IN  [threw |-> FALSE, result |-> m.ok,
                      li |-> [li EXCEPT !.route = LastIndexAfter(m)]]
            ELSE [threw |-> FALSE, result |-> FALSE, li |-> li]
      [] plugin.kind = "fastify" ->
            IF HasToken(file.content, "fastify")
            THEN LET m == ExecFrom(li.fastify, FASTIFY_ROUTE_REGEX(file.content))
                 IN  [threw |-> FALSE, result |-> m.ok,
                      li |-> [li EXCEPT !.fastify = LastIndexAfter(m)]]
            ELSE [threw |-> FALSE, result |-> FALSE, li |-> li]
      [] plugin.kind = "nestjs" ->
            [threw |-> FALSE,
             result |-> EndsWithTs(file.path) /\ HasController(file.content),
             li |-> li]
      [] OTHER ->
            [threw |-> CustomMatchThrows(plugin, file),
             result |-> CustomApplies(plugin, file), li |-> li]

\* plugin.extract(filePath, content) called with lastIndex li.
PluginExtract(plugin, file, li) ==
    LET Returned(r) == [threw |-> FALSE, endpoints |-> r.endpoints, li |-> r.li]
    IN  CASE plugin.kind = "express" ->
                Returned(extractExpressRoutes(file.path, file.content, li))
          [] plugin.kind = "fastify" ->
                Returned(extractFastifyRoutes(file.path, file.content, li))
          [] plugin.kind = "nestjs" ->
                Returned(extractNestRoutes(file.path, file.content, li))
          [] plugin.kind = "static" ->
                [threw |-> FALSE, endpoints |-> <<StaticEndpoint(file.path)>>, li |-> li]
          [] OTHER ->
                [threw |-> CustomExtractThrows(plugin, file), endpoints |-> <<>>, li |-> li]

---------------------------------------------------------------------------
(* scanBackendProject: the body of the for-loop for one file *)

\* plugins.filter((plugin) => plugin.match(filePath, content)): the plugins
\* are asked in list order; matched holds the indices of those that apply.
\* A match that throws ends the filter, and the scan, there.
RECURSIVE FilterPlugins(_, _, _, _, _)
FilterPlugins(ps, k, file, li, matched) ==
    IF k > Len(ps) THEN [threw |-> FALSE, matched |-> matched, li |-> li]
    ELSE LET Step(r) ==
                 IF r.threw THEN [threw |-> TRUE, matched |-> matched, li |-> r.li]
                 ELSE FilterPlugins(ps, k + 1, file, r.li,
                                    IF r.result THEN Append(matched, k) ELSE matched)
         IN  Step(PluginMatch(ps[k], file, li))

\* endpoints.push that skips an endpoint whose method and path are there.
PushNew(eps, extracted) ==
    eps \o SelectSeq(extracted,
                     LAMBDA e : \A i \in DOMAIN eps :
                                   <<eps[i].method, eps[i].path>> # <<e.method, e.path>>)

\* endpoints.push(...extracted)
PushAll(eps, extracted) == eps \o extracted

\* The template string of the warning.
WarningOf(filePath, pluginName) == <<"Failed to parse ", filePath, " with ", pluginName>>

\* The catch clause entered also when extract returned an empty list.
CaughtOrEmpty(r) == r.threw \/ r.endpoints = <<>>

\* The catch clause is entered when extract threw.
Caught(r) == r.threw

\* for (const plugin of matchedPlugins) { try ... catch ... }, from the j-th
\* matched plugin on.  st holds lastIndex, the two arrays and the call log.
RECURSIVE ExtractMatched(_, _, _, _, _, _)
ExtractMatched(ps, matched, j, f, file, st) ==
    IF j > Len(matched) THEN st
    ELSE LET Step(plugin, r) ==
                 ExtractMatched(ps, matched, j + 1, f, file,
                     [li |-> r.li,
                      endpoints |-> IF Caught(r) THEN st.endpoints
                                    ELSE PushAll(st.endpoints, r.endpoints),
                      warnings |-> IF Caught(r)
                                   THEN Append(st.warnings,
                                               WarningOf(file.path, plugin.name))
                                   ELSE st.warnings,
                      log |-> Append(st.log, [file |-> f, plugin |-> matched[j],
                                              threw |-> r.threw,
                                              endpoints |-> r.endpoints])])
         IN  Step(ps[matched[j]], PluginExtract(ps[matched[j]], file, st.li))

---------------------------------------------------------------------------
(* The snapshot writer (output.ts).  A value is what JSON.parse can put     *)
(* where an endpoint is expected: null, a number, or an object, whose       *)
(* fields are optional strings.  A JSON text is a lexeme sequence.          *)

JsValue(type, method, path, description, sourceFile) ==
    [type |-> type, method |-> method, path |-> path,
     description |-> description, sourceFile |-> sourceFile]

NullValue == JsValue("null", Undefined, Undefined, Undefined, Undefined)

NumberValue == JsValue("number", Undefined, Undefined, Undefined, Undefined)

EmptyObject == JsValue("object", Undefined, Undefined, Undefined, Undefined)

\* An EndpointInfo: method and path are there, description is optional.
EndpointInfo(method, path, description, sourceFile) ==
    JsValue("object", Str(<<method>>), Str(<<path>>), description, Str(<<sourceFile>>))

\* JSON.stringify of a value: a property whose value is undefined is left
\* out; the properties keep their order.
Property(key, value) == IF value.defined THEN <<key>> \o value.text ELSE <<>>

JSONStringify(v) ==
    CASE v.type = "null" -> <<"null">>
      [] v.type = "number" -> <<"5">>
      [] OTHER -> <<"{">> \o Property("method", v.method) \o Property("path", v.path)
                  \o Property("description", v.description)
                  \o Property("sourceFile", v.sourceFile) \o <<"}">>

\* JSON.parse of the text of one value: a property the text does not hold
\* is undefined in the object.
PropertyOf(text, key) ==
    IF \E i \in 1..((Len(text) - 2) \div 2) : text[2 * i] = key
    THEN Str(<<text[2 * (CHOOSE i \in 1..((Len(text) - 2) \div 2) : text[2 * i] = key) + 1]>>)
    ELSE Undefined

JSONParseValue(text) ==
    IF text = <<"null">> THEN NullValue
    ELSE IF text[1] # "{" THEN NumberValue
    ELSE JsValue("object", PropertyOf(text, "method"), PropertyOf(text, "path"),
                 PropertyOf(text, "description"), PropertyOf(text, "sourceFile"))

\* The snapshot file: absent, or a text that is no JSON (root "garbage"),
\* or the JSON text of null, of a number, or of an object whose endpoints
\* property is missing ("undefined"), null, a number or an array of texts.
FileState(kind, root, endpointsType, items) ==
    [kind |-> kind, root |-> root, endpoints |-> endpointsType, items |-> items]

Absent == FileState("absent", "", "", <<>>)

Garbage == FileState("file", "garbage", "", <<>>)

\* A template literal prints a missing property as "undefined".
TemplateText(value) == IF value.defined THEN value.text[1] ELSE "undefined"

\* endpointKey with the method alone.
endpointKeyMethodOnly(endpoint) == <<TemplateText(endpoint.method)>>

endpointKey(endpoint) ==
    <<TemplateText(endpoint.method), " ", TemplateText(endpoint.path)>>

normalizeForCompare(endpoint) == JSONStringify(endpoint)

\* JSON.stringify(data, null, 2), as far as the endpoints go.
StringifyResult(data) ==
    FileState("file", "object", "array",
              [i \in DOMAIN data |-> JSONStringify(data[i])])

\* readExisting: null when the file cannot be read or parsed, the parsed
\* root otherwise.
NullExisting == [isNull |-> TRUE, endpoints |-> "undefined", items |-> <<>>]

readExisting(file) ==
    IF file.kind = "absent" \/ file.root = "garbage" \/ file.root = "null"
    THEN NullExisting
    ELSE [isNull |-> FALSE,
          endpoints |-> IF file.root = "object" THEN file.endpoints ELSE "undefined",
          items |-> [i \in DOMAIN file.items |-> JSONParseValue(file.items[i])]]

\* existing?.endpoints is truthy: a non-zero number or an array.
HasEndpoints(existing) ==
    ~existing.isNull /\ existing.endpoints \in {"number", "array"}

\* existing.endpoints.map(...) throws a TypeError: map is no function of a
\* number, and endpointKey reads a property of null.
MapThrows(existing) ==
    \/ existing.endpoints # "array"
    \/ \E i \in DOMAIN existing.items : existing.items[i].type = "null"

\* A lookup that keeps the entry inserted first under the key.
MapGetFirst(items, key) ==
    IF \E i \in DOMAIN items : endpointKey(items[i]) = key
    THEN Str(normalizeForCompare(
             items[Min({i \in DOMAIN items : endpointKey(items[i]) = key})]))
    ELSE Undefined

\* existingMap.get(key) of new Map(entries): the entry inserted last under
\* the key, or undefined.
MapGet(items, key) ==
    IF \E i \in DOMAIN items : endpointKey(items[i]) = key
    THEN Str(normalizeForCompare(
             items[Max({i \in DOMAIN items : endpointKey(items[i]) = key})]))
    ELSE Undefined

\* The test that counts an entry as unchanged whenever its key is known.
KnownKey(existingSerialized, serialized) == existingSerialized.defined

\* existingSerialized && existingSerialized === serialized
SameSerialized(existingSerialized, serialized) ==
    existingSerialized.defined /\ existingSerialized.text = serialized

\* A push that leaves out the unchanged endpoints.
PushChanged(nextEndpoints, endpoint, unchanged) ==
    IF unchanged THEN nextEndpoints ELSE Append(nextEndpoints, endpoint)

\* nextEndpoints.push(endpoint), in both branches.
PushEndpoint(nextEndpoints, endpoint, unchanged) == Append(nextEndpoints, endpoint)

\* for (const endpoint of data.endpoints) { ... }, from the i-th endpoint on.
RECURSIVE Reconcile(_, _, _, _)
Reconcile(items, data, i, st) ==
    IF i > Len(data) THEN st
    ELSE LET Step(unchanged) ==
                 Reconcile(items, data, i + 1,
                     [nextEndpoints |-> PushEndpoint(st.nextEndpoints, data[i], unchanged),
                      endpointsUnchanged |-> st.endpointsUnchanged
                                             + (IF unchanged THEN 1 ELSE 0)])
         IN  Step(SameSerialized(MapGet(items, endpointKey(data[i])),
                                 normalizeForCompare(data[i])))

\* writeOutputJson(data, {rootDir, incremental}) with the snapshot file as
\* it is: whether the call threw, the file afterwards and the counters.
WriteResult(threw, file, written, unchanged) ==
    [threw |-> threw, file |-> file,
     endpointsWritten |-> written, endpointsUnchanged |-> unchanged]

writeOutputJson(data, incremental, file) ==
    LET Written(st) ==
            WriteResult(FALSE, StringifyResult(st.nextEndpoints),
                        Len(st.nextEndpoints), st.endpointsUnchanged)
        Incremental(existing) ==
            IF ~HasEndpoints(existing)
            THEN WriteResult(FALSE, StringifyResult(data), Len(data), 0)
            ELSE IF MapThrows(existing) THEN WriteResult(TRUE, file, 0, 0)
            ELSE Written(Reconcile(existing.items, data, 1,
                                   [nextEndpoints |-> <<>>, endpointsUnchanged |-> 0]))
    IN  IF incremental THEN Incremental(readExisting(file))
        ELSE WriteResult(FALSE, StringifyResult(data), Len(data), 0)

---------------------------------------------------------------------------
(* Sample documentation blocks.  free is the block's free text: what lies  *)
(* between the delimiters, outside the line decoration and the annotation  *)
(* lines.                                                                  *)

JsonUsers == "{\"users\":[]}"

JsonName == "{\"name\":\"string\"}"

JsonId == "{\"id\":1}"

\* /** List users
\*  * @param {string} status
\*  * @responseExample 200 {"users":[]}
\*  */
BlockUsers ==
    <<"/", "*", "*", " ", "List", " ", "users", "\n",
      " ", "*", " ", "@", "param", " ", "{", "string", "}", " ", "status", "\n",
      " ", "*", " ", "@", "responseExample", " ", "200", " ", JsonUsers, "\n",
      " ", "*", "/">>

\* The same block laid out as in the README: the opening on a line of its own.
BlockReadme ==
    <<"/", "*", "*", "\n",
      " ", "*", " ", "List", " ", "users", "\n",
      " ", "*", " ", "@", "param", " ", "{", "string", "}", " ", "status", "\n",
      " ", "*", " ", "@", "responseExample", " ", "200", " ", JsonUsers, "\n",
      " ", "*", "/">>

\* /**
\*  * Create user
\*  * @requestBody {"name":"string"}
\*  * @responseExample 201 {"id":1}
\*  */
BlockCreate ==
    <<"/", "*", "*", "\n",
      " ", "*", " ", "Create", " ", "user", "\n",
      " ", "*", " ", "@", "requestBody", " ", JsonName, "\n",
      " ", "*", " ", "@", "responseExample", " ", "201", " ", JsonId, "\n",
      " ", "*", "/">>

\* /**
\*  * @param {number=} id
\*  */
BlockNoText ==
    <<"/", "*", "*", "\n",
      " ", "*", " ", "@", "param", " ", "{", "number", "=", "}", " ", "id", "\n",
      " ", "*", "/">>

\* /**
\*  * @requestBody users ok
\*  * @responseExample 404 ok
\*  */
BlockRaw ==
    <<"/", "*", "*", "\n",
      " ", "*", " ", "@", "requestBody", " ", "users", " ", "ok", "\n",
      " ", "*", " ", "@", "responseExample", " ", "404", " ", "ok", "\n",
      " ", "*", "/">>

\* /** ok
\*  * @responseExample 200 {"users":[]}
\*  * @responseExample 404 ok
\*  */
BlockTwoResponses ==
    <<"/", "*", "*", " ", "ok", "\n",
      " ", "*", " ", "@", "responseExample", " ", "200", " ", JsonUsers, "\n",
      " ", "*", " ", "@", "responseExample", " ", "404", " ", "ok", "\n",
      " ", "*", "/">>

SampleBlocks ==
    << [block |-> NullBlock, free |-> <<>>],
       [block |-> Block(BlockUsers), free |-> <<"List", " ", "users">>],
       [block |-> Block(BlockReadme), free |-> <<"List", " ", "users">>],
       [block |-> Block(BlockCreate), free |-> <<"Create", " ", "user">>],
       [block |-> Block(BlockNoText), free |-> <<>>],
       [block |-> Block(BlockRaw), free |-> <<>>],
       [block |-> Block(BlockTwoResponses), free |-> <<"ok">>] >>

---------------------------------------------------------------------------
(* State common to the specifications *)

\* The module is loaded: every regular expression starts at lastIndex 0.
ZeroIndex ==
    [route |-> 0, fastify |-> 0, nest |-> 0, param |-> 0, response |-> 0, request |-> 0]

NoCall == [status |-> "none", data |-> <<>>]

NoWrite ==
    [status |-> "none", incremental |-> FALSE, data |-> <<>>, prior |-> Absent,
     endpointsWritten |-> 0, endpointsUnchanged |-> 0, before |-> NoCall]

\* No extractDocBlock call has been made.
NoExtract == [content |-> <<>>, index |-> 0, result |-> NullBlock]

DocIdle == docHistory = <<>> /\ docResult = EmptyDoc /\ docBlock = NoExtract

ScanIdle ==
    /\ tree = <<>> /\ plugins = <<>> /\ pc = "idle" /\ fileIdx = 0
    /\ endpoints = <<>> /\ warnings = <<>> /\ results = <<>> /\ callLog = <<>>

OutIdle == disk = Absent /\ wr = NoWrite

scanVars == <<tree, plugins, pc, fileIdx, endpoints, warnings, results, callLog>>

docVars == <<docHistory, docResult, docBlock>>

outVars == <<disk, wr>>

\* No readAllFiles call is under way.
ReadIdle == layout = <<>> /\ reads = <<>>

readVars == <<layout, reads>>

\* The generate command has not run.
NoRun ==
    [status |-> "none", flag |-> FALSE, config |-> "absent", incremental |-> FALSE,
     scan |-> "none", fault |-> "none", persisted |-> FALSE, data |-> <<>>,
     prior |-> Absent]

CliIdle == cli = NoRun

cliVars == <<cli>>

---------------------------------------------------------------------------
(* SpecDoc: parseDocBlock called on one block after another in one process *)

InitDoc ==
    lastIndex = ZeroIndex /\ DocIdle /\ ScanIdle /\ OutIdle /\ ReadIdle /\ CliIdle

ParseDocBlock(b) ==
    /\ Len(docHistory) < MaxDocCalls
    /\ \E r \in {parseDocBlock(SampleBlocks[b].block, lastIndex)} :
           /\ docResult' = r.doc
           /\ lastIndex' = r.li
    /\ docHistory' = Append(docHistory, b)
    /\ UNCHANGED <<docBlock, scanVars, outVars, readVars, cliVars>>

NextDoc == \E b \in 1..Len(SampleBlocks) : ParseDocBlock(b)

SpecDoc == InitDoc /\ [][NextDoc]_vars

---------------------------------------------------------------------------
(* SpecBlock: extractDocBlock called on one content and offset after        *)
(* another in one process                                                   *)

\* /** users */ get /** user */ put
ContentTwoBlocks ==
    <<"/", "*", "*", " ", "users", " ", "*", "/", " ", "get", " ",
      "/", "*", "*", " ", "user", " ", "*", "/", " ", "put">>

\* /** users /** user */ get
ContentNested ==
    <<"/", "*", "*", " ", "users", " ",
      "/", "*", "*", " ", "user", " ", "*", "/", " ", "get">>

\* /** users /**/ user */ get
ContentOverlap ==
    <<"/", "*", "*", " ", "users", " ",
      "/", "*", "*", "/", " ", "user", " ", "*", "/", " ", "get">>

\* /**/ get */ put
ContentShort ==
    <<"/", "*", "*", "/", " ", "get", " ", "*", "/", " ", "put">>

\* get /** users
ContentOpen == <<"get", " ", "/", "*", "*", " ", "users">>

\* /***/ get /* user */ put
ContentPlain ==
    <<"/", "*", "*", "*", "/", " ", "get", " ",
      "/", "*", " ", "user", " ", "*", "/", " ", "put">>

\* <BlockUsers>
\* get("/users")
ContentRoute == BlockUsers \o <<"\n", "get", "(", "\"", "/users", "\"", ")">>

SampleContents ==
    {ContentTwoBlocks, ContentNested, ContentOverlap, ContentShort, ContentOpen,
     ContentPlain, ContentRoute}

InitBlock ==
    lastIndex = ZeroIndex /\ DocIdle /\ ScanIdle /\ OutIdle /\ ReadIdle /\ CliIdle

ExtractDocBlock(content, index) ==
    /\ docBlock' = [content |-> content, index |-> index,
                     result |-> extractDocBlock(content, index)]
    /\ UNCHANGED <<lastIndex, docHistory, docResult, scanVars, outVars, readVars, cliVars>>

NextBlock ==
    \E content \in SampleContents : \E index \in 0..Len(content) :
        ExtractDocBlock(content, index)

SpecBlock == InitBlock /\ [][NextBlock]_vars

---------------------------------------------------------------------------
(* Sample source files *)

\* const app = express()
\* <BlockReadme>
\* app.get("/users", handler)
FileExpressOne ==
    [path |-> "/p/users.js",
     content |-> <<"const", " ", "app", " ", "=", " ", "express", "(", ")", "\n">>
                 \o BlockReadme \o
                 <<"\n", "app", ".", "get", "(", "\"", "/users", "\"", ",", " ",
                   "handler", ")">>,
     single |-> TRUE, framework |-> "express", method |-> "GET", route |-> <<"/users">>]

\* const app = express()
\* <BlockUsers>
\* app.get("/users", handler)
\* <BlockCreate>
\* app.post("/users", handler)
FileExpressTwo ==
    [path |-> "/p/two.js",
     content |-> <<"const", " ", "app", " ", "=", " ", "express", "(", ")", "\n">>
                 \o BlockUsers \o
                 <<"\n", "app", ".", "get", "(", "\"", "/users", "\"", ",", " ",
                   "handler", ")", "\n">>
                 \o BlockCreate \o
                 <<"\n", "app", ".", "post", "(", "\"", "/users", "\"", ",", " ",
                   "handler", ")">>,
     single |-> FALSE, framework |-> "express", method |-> "", route |-> <<>>]

\* <BlockCreate>
\* fastify.route({
\*   method: "POST",
\*   url: "/users",
\*   handler: handler
\* })
FileFastifyOne ==
    [path |-> "/p/create.js",
     content |-> BlockCreate \o
                 <<"\n", "fastify", ".", "route", "(", "{", "\n",
                   " ", "method", ":", " ", "\"", "POST", "\"", ",", "\n",
                   " ", "url", ":", " ", "\"", "/users", "\"", ",", "\n",
                   " ", "handler", ":", " ", "handler", "\n", "}", ")">>,
     single |-> TRUE, framework |-> "fastify", method |-> "POST", route |-> <<"/users">>]

\* @Controller("users")
\* export class users {
\*   <BlockUsers>
\*   @Get(":id")
\*   user() {}
\* }
FileNestOne ==
    [path |-> "/p/users.controller.ts",
     content |-> <<"@", "Controller", "(", "\"", "users", "\"", ")", "\n",
                   "export", " ", "class", " ", "users", " ", "{", "\n">>
                 \o BlockUsers \o
                 <<"\n", "@", "Get", "(", "\"", ":id", "\"", ")", "\n",
                   "user", "(", ")", " ", "{", "}", "\n", "}">>,
     single |-> TRUE, framework |-> "nestjs", method |-> "GET", route |-> <<":id">>]

\* A file with no route and no framework marker.
FilePlain ==
    [path |-> "/p/util.ts",
     content |-> <<"export", " ", "const", " ", "id", " ", "=", " ", "200">>,
     single |-> FALSE, framework |-> "", method |-> "", route |-> <<>>]

\* Router
\* @Controller()
\* @Get("/a")
\* @Post("/a")
FileMixed ==
    [path |-> "/p/mixed.ts",
     content |-> <<"Router", "\n", "@", "Controller", "(", ")", "\n",
                   "@", "Get", "(", "\"", "/a", "\"", ")", "\n",
                   "@", "Post", "(", "\"", "/a", "\"", ")">>,
     single |-> FALSE, framework |-> "", method |-> "", route |-> <<>>]

\* Router
\* router.patch("/x", handler)
\* router.get("/a", handler)
\* router.Post("/y", handler)
FileVerbs ==
    [path |-> "/p/verbs.js",
     content |-> <<"Router", "\n",
                   "router", ".", "patch", "(", "\"", "/x", "\"", ",", " ", "handler", ")", "\n",
                   "router", ".", "get", "(", "\"", "/a", "\"", ",", " ", "handler", ")", "\n",
                   "router", ".", "Post", "(", "\"", "/y", "\"", ",", " ", "handler", ")">>,
     single |-> FALSE, framework |-> "", method |-> "", route |-> <<>>]

\* @Controller("users")
\* @Get()
\* @Post("")
\* @Put("/z")
\* @Delete('/w')
FileNestPaths ==
    [path |-> "/p/paths.controller.ts",
     content |-> <<"@", "Controller", "(", "\"", "users", "\"", ")", "\n",
                   "@", "Get", "(", ")", "\n",
                   "@", "Post", "(", "\"", "\"", ")", "\n",
                   "@", "Put", "(", "\"", "/z", "\"", ")", "\n",
                   "@", "Delete", "(", "'", "/w", "'", ")">>,
     single |-> FALSE, framework |-> "", method |-> "", route |-> <<>>]

SampleFiles ==
    {FileExpressOne, FileExpressTwo, FileFastifyOne, FileNestOne, FilePlain, FileMixed,
     FileVerbs, FileNestPaths}

\* The trees: up to MaxFiles different files, in every discovery order.
Trees ==
    {t \in UNION {[1..n -> SampleFiles] : n \in 1..MaxFiles} :
        \A i, j \in DOMAIN t : i # j => t[i] # t[j]}

PluginLists ==
    { createDefaultPlugins,
      createDefaultPlugins \o <<StaticPlugin>>,
      <<ThrowingExtractPlugin>> \o createDefaultPlugins,
      <<EmptyPlugin, StaticPlugin, ThrowingExtractPlugin, StaticPlugin>>,
      <<StaticPlugin, ThrowingMatchPlugin, createDefaultPlugins[3]>> }

---------------------------------------------------------------------------
(* Spec: scanBackendProject called up to MaxScans times, one call after    *)
(* the other, in one process, on an unchanged tree                         *)

Init ==
    /\ lastIndex = ZeroIndex
    /\ tree \in Trees
    /\ plugins \in PluginLists
    /\ pc = "idle" /\ fileIdx = 0
    /\ endpoints = <<>> /\ warnings = <<>> /\ results = <<>> /\ callLog = <<>>
    /\ DocIdle /\ OutIdle /\ ReadIdle /\ CliIdle

\* The call, up to the point where readAllFiles has resolved.
StartScan ==
    /\ pc = "idle"
    /\ Len(results) < MaxScans
    /\ pc' = "loop"
    /\ fileIdx' = 1
    /\ endpoints' = <<>>
    /\ warnings' = <<>>
    /\ callLog' = <<>>
    /\ UNCHANGED <<lastIndex, tree, plugins, results, docVars, outVars, readVars, cliVars>>

\* One iteration of the for-loop: the file is read, the plugins are
\* filtered and the matched ones extract.  A throw of a match function is
\* caught nowhere: the promise of the scan rejects.
ProcessFile ==
    /\ pc = "loop"
    /\ fileIdx <= Len(tree)
    /\ \E filtered \in {FilterPlugins(plugins, 1, tree[fileIdx], lastIndex, <<>>)} :
           IF filtered.threw
           THEN /\ pc' = "idle"
                /\ results' = Append(results, [ok |-> FALSE, endpoints |-> <<>>,
                                               warnings |-> <<>>])
                /\ lastIndex' = filtered.li
                /\ UNCHANGED <<fileIdx, endpoints, warnings, callLog>>
           ELSE \E st \in {ExtractMatched(plugins, filtered.matched, 1, fileIdx,
                                          tree[fileIdx],
                                          [li |-> filtered.li, endpoints |-> endpoints,
                                           warnings |-> warnings, log |-> callLog])} :
                /\ lastIndex' = st.li
                /\ endpoints' = st.endpoints
                /\ warnings' = st.warnings
                /\ callLog' = st.log
                /\ fileIdx' = fileIdx + 1
                /\ UNCHANGED <<pc, results>>
    /\ UNCHANGED <<tree, plugins, docVars, outVars, readVars, cliVars>>

\* The loop is over: the promise resolves with the ScanResult.
ReturnScan ==
    /\ pc = "loop"
    /\ fileIdx > Len(tree)
    /\ pc' = "idle"
    /\ results' = Append(results, [ok |-> TRUE, endpoints |-> endpoints,
                                   warnings |-> warnings])
    /\ UNCHANGED <<lastIndex, tree, plugins, fileIdx, endpoints, warnings, callLog,
                   docVars, outVars, readVars, cliVars>>

Next == StartScan \/ ProcessFile \/ ReturnScan

Spec == Init /\ [][Next]_vars

---------------------------------------------------------------------------
(* SpecOut: writeOutputJson called again and again on one root directory,   *)
(* whose snapshot file may hold anything at the start                       *)

\* GET /a, and the same with another description; GET /b, without a
\* description.
EndpointA == EndpointInfo("GET", "/a", Str(<<"x">>), "/p/f1.js")

EndpointA2 == EndpointInfo("GET", "/a", Str(<<"y">>), "/p/f1.js")

EndpointC == EndpointInfo("GET", "/b", Undefined, "/p/f1.js")

SampleEndpoints == {EndpointA, EndpointA2, EndpointC}

\* The endpoint lists of the ScanResults handed to writeOutputJson.
ScanResults == UNION {[1..n -> SampleEndpoints] : n \in 0..MaxEndpoints}

\* What the file holds before the first call: nothing, no JSON, null, a
\* number, {}, {"endpoints": null}, {"endpoints": 5}, {"endpoints": [null]},
\* {"endpoints": [5]}, {"endpoints": [{}]}.
InitialFiles ==
    { Absent, Garbage,
      FileState("file", "null", "", <<>>),
      FileState("file", "number", "", <<>>),
      FileState("file", "object", "undefined", <<>>),
      FileState("file", "object", "null", <<>>),
      FileState("file", "object", "number", <<>>),
      FileState("file", "object", "array", <<JSONStringify(NullValue)>>),
      FileState("file", "object", "array", <<JSONStringify(NumberValue)>>),
      FileState("file", "object", "array", <<JSONStringify(EmptyObject)>>) }

InitOut ==
    /\ lastIndex = ZeroIndex /\ DocIdle /\ ScanIdle /\ ReadIdle /\ CliIdle
    /\ disk \in InitialFiles
    /\ wr = NoWrite

WriteOutputJson(data, incremental) ==
    /\ \E r \in {writeOutputJson(data, incremental, disk)} :
          /\ disk' = r.file
          /\ wr' = [status |-> IF r.threw THEN "threw" ELSE "ok",
                    incremental |-> incremental, data |-> data, prior |-> disk,
                    endpointsWritten |-> r.endpointsWritten,
                    endpointsUnchanged |-> r.endpointsUnchanged,
                    before |-> [status |-> wr.status, data |-> wr.data]]
    /\ UNCHANGED <<lastIndex, docVars, scanVars, readVars, cliVars>>

NextOut ==
    \E data \in ScanResults, incremental \in BOOLEAN : WriteOutputJson(data, incremental)

SpecOut == InitOut /\ [][NextOut]_vars

---------------------------------------------------------------------------
(* readAllFiles.  A path is the sequence of its segments.  Every call      *)
(* awaits fs.readdir of its directory, maps the entries (a file is pushed  *)
(* at once, a subdirectory starts a nested call) and awaits Promise.all;   *)
(* the nested calls of sibling subdirectories are under way together and   *)
(* their readdir may complete in any order.                                *)

Root == <<"/p">>

SubdirNames == <<"a", "b", "c", "d", "e">>

\* path.join(rootDir, entry.name)
PathJoin(dir, name) == Append(dir, name)

Dirent(name, kind) == [name |-> name, kind |-> kind]

\* fullPath.endsWith(".ts") || fullPath.endsWith(".js")
SourceNames == {"r.ts", "m.ts", "x.js"}

IsSourceFile(fullPath) == fullPath[Len(fullPath)] \in SourceNames

\* The tree with n subdirectories below the root, those whose index is in
\* nested holding a subdirectory x of their own:
\*   /p: r.ts, <the subdirectories>, notes.md     /p/<s>: [x,] m.ts
\*   /p/<s>/x: x.js, link (neither file nor directory)
LayoutOf(n, nested) ==
    [d \in {Root} \cup {PathJoin(Root, SubdirNames[i]) : i \in 1..n}
           \cup {PathJoin(PathJoin(Root, SubdirNames[i]), "x") : i \in nested} |->
        IF Len(d) = 1
        THEN <<Dirent("r.ts", "file")>> \o [i \in 1..n |-> Dirent(SubdirNames[i], "dir")]
             \o <<Dirent("notes.md", "file")>>
        ELSE IF Len(d) = 2
        THEN (IF \E i \in nested : SubdirNames[i] = d[2]
              THEN <<Dirent("x", "dir")>> ELSE <<>>) \o <<Dirent("m.ts", "file")>>
        ELSE <<Dirent("x.js", "file"), Dirent("link", "other")>>]

Layouts ==
    UNION {{LayoutOf(n, nested) : nested \in SUBSET (1..n)} : n \in 1..MaxSubdirs}

\* entry.isDirectory()
IsDirectoryEntry(entry) == entry.kind = "dir"

\* entry.isFile() && (fullPath.endsWith(".ts") || fullPath.endsWith(".js"))
IsSourceEntry(dir, entry) ==
    entry.kind = "file" /\ IsSourceFile(PathJoin(dir, entry.name))

\* The subdirectories of dir.
SubdirsOf(lay, dir) ==
    {PathJoin(dir, lay[dir][k].name) : k \in {j \in DOMAIN lay[dir] : IsDirectoryEntry(lay[dir][j])}}

\* The files the map callbacks push before anything is awaited: the source
\* files of dir itself, in readdir order.
RECURSIVE DirectFiles(_, _, _)
DirectFiles(lay, dir, k) ==
    IF k > Len(lay[dir]) THEN <<>>
    ELSE (IF IsSourceEntry(dir, lay[dir][k])
          THEN <<PathJoin(dir, lay[dir][k].name)>> ELSE <<>>)
         \o DirectFiles(lay, dir, k + 1)

\* Promise.all of the call on dir has resolved: the call returns its files.
\* The caller, the map callback of the parent directory, pushes them
\* (files.push(...nested)); when that was the last callback of the parent,
\* the parent's Promise.all resolves in turn.
RECURSIVE Settle(_, _, _)
Settle(lay, rs, dir) ==
    IF dir = Root THEN [rs EXCEPT ![dir].status = "resolved"]
    ELSE LET Pushed(parent, after) ==
                 IF \A c \in SubdirsOf(lay, parent) : after[c].status = "returned"
                 THEN Settle(lay, after, parent)
                 ELSE after
             Push(parent) ==
                 Pushed(parent,
                        [rs EXCEPT ![dir].status = "returned",
                                   ![parent].files = rs[parent].files \o rs[dir].files])
         IN  Push(SubSeq(dir, 1, Len(dir) - 1))

\* fs.readdir of dir has resolved: the entries are mapped.
Mapped(lay, rs, dir) ==
    [c \in DOMAIN rs |->
        IF c = dir THEN [status |-> "waiting", files |-> DirectFiles(lay, dir, 1)]
        ELSE IF c \in SubdirsOf(lay, dir) THEN [status |-> "readdir", files |-> <<>>]
        ELSE rs[c]]

---------------------------------------------------------------------------
(* SpecRead: one call of readAllFiles on the root of a directory tree      *)

InitRead ==
    /\ lastIndex = ZeroIndex /\ DocIdle /\ ScanIdle /\ OutIdle /\ CliIdle
    /\ layout \in Layouts
    /\ reads = [d \in DOMAIN layout |-> [status |-> "idle", files |-> <<>>]]

\* readAllFiles(rootDir) is called and awaits fs.readdir.
CallReadAllFiles ==
    /\ reads[Root].status = "idle"
    /\ reads' = [reads EXCEPT ![Root].status = "readdir"]
    /\ UNCHANGED <<lastIndex, layout, docVars, scanVars, outVars, cliVars>>

\* fs.readdir(dir) completes.
ReaddirResolves(dir) ==
    /\ reads[dir].status = "readdir"
    /\ reads' = IF SubdirsOf(layout, dir) = {}
                THEN Settle(layout, Mapped(layout, reads, dir), dir)
                ELSE Mapped(layout, reads, dir)
    /\ UNCHANGED <<lastIndex, layout, docVars, scanVars, outVars, cliVars>>

NextRead == CallReadAllFiles \/ \E dir \in DOMAIN layout : ReaddirResolves(dir)

SpecRead == InitRead /\ [][NextRead]_vars

---------------------------------------------------------------------------
(* The generate command of the CLI *)

Bool(b) == [defined |-> TRUE, value |-> b]

\* a ?? b
Coalesce(a, b) == IF a.defined THEN a ELSE b

DEFAULT_CONFIG == [incremental |-> Bool(TRUE)]

\* .zeus-core/config.json: absent, no JSON, or the JSON text of an object
\* without the incremental property or with it.
ConfigFiles ==
    {"absent", "garbage", "{}", "{\"incremental\":true}", "{\"incremental\":false}"}

\* readConfig: { ...DEFAULT_CONFIG, ...JSON.parse(raw) }, the defaults when
\* the file cannot be read or parsed.
readConfig(file) ==
    CASE file = "{\"incremental\":true}" -> [incremental |-> Bool(TRUE)]
      [] file = "{\"incremental\":false}" -> [incremental |-> Bool(FALSE)]
      [] OTHER -> DEFAULT_CONFIG

\* .option("--incremental", "Incremental update", false): the value of the
\* option as commander hands it to the action, true when the flag is given
\* and the declared default otherwise.
IncrementalOption(given) == IF given THEN Bool(TRUE) ELSE Bool(FALSE)

\* const incremental = options.incremental ?? config.incremental
ResolveIncremental(given, file) ==
    Coalesce(IncrementalOption(given), readConfig(file).incremental).value

\* The snapshot file after an fs.writeFile that failed part-way: the file
\* was truncated when it was opened and holds a proper prefix of the new
\* text, which is no JSON.
PartialFile == FileState("file", "garbage", "", <<"{">>)

\* What a failing fs.writeFile can leave behind: the file as it was (the
\* open failed) or a partial file (a write failed).
AfterFailedWrite(file) == {file, PartialFile}

\* The ScanResults the scan of the command resolves with.
GenerateScans == {data \in ScanResults : Len(data) <= 1}

---------------------------------------------------------------------------
(* SpecCli: zeus-core generate run again and again on one project, each run *)
(* a process of its own; the file system may fail any of its operations     *)

InitCli ==
    /\ lastIndex = ZeroIndex /\ DocIdle /\ ScanIdle /\ ReadIdle
    /\ disk \in InitialFiles \cup {StringifyResult(<<EndpointA>>)}
    /\ wr = NoWrite
    /\ cli = NoRun

\* generateCommand up to its first await of the scan: the configuration is
\* read and the incremental mode is resolved.
Generate(given, file) ==
    /\ cli.status \in {"none", "done", "failed"}
    /\ cli' = [status |-> "scanning", flag |-> given, config |-> file,
               incremental |-> ResolveIncremental(given, file),
               scan |-> "none", fault |-> "none", persisted |-> FALSE,
               data |-> <<>>, prior |-> disk]
    /\ UNCHANGED <<lastIndex, docVars, scanVars, outVars, readVars>>

\* scanBackendProject resolves.
ScanResolves(data) ==
    /\ cli.status = "scanning"
    /\ cli' = [cli EXCEPT !.status = "writing", !.scan = "resolved", !.data = data]
    /\ UNCHANGED <<lastIndex, docVars, scanVars, outVars, readVars>>

\* fs.readFile of a source file fails: scanBackendProject rejects, the await
\* in generateCommand throws, the action logs the error and exits.
ScanRejects ==
    /\ cli.status = "scanning"
    /\ cli' = [cli EXCEPT !.status = "failed", !.scan = "rejected", !.fault = "readFile"]
    /\ UNCHANGED <<lastIndex, docVars, scanVars, outVars, readVars>>

\* writeOutputJson(result, {rootDir, incremental}), with the file system
\* failing in mkdir, in writeFile, or not at all.
Persist(fault) ==
    /\ cli.status = "writing"
    /\ \E r \in {writeOutputJson(cli.data, cli.incremental, disk)} :
          IF fault = "mkdir" \/ r.threw
          THEN /\ disk' = disk
               /\ cli' = [cli EXCEPT !.status = "failed",
                                     !.fault = IF fault = "mkdir" THEN fault ELSE "none"]
          ELSE IF fault = "writeFile"
          THEN /\ disk' \in AfterFailedWrite(disk)
               /\ cli' = [cli EXCEPT !.status = "failed", !.fault = fault]
          ELSE /\ disk' = r.file
               /\ cli' = [cli EXCEPT !.status = "done", !.persisted = TRUE]
    /\ UNCHANGED <<lastIndex, docVars, scanVars, wr, readVars>>

NextCli ==
    \/ \E given \in BOOLEAN, file \in ConfigFiles : Generate(given, file)
    \/ \E data \in GenerateScans : ScanResolves(data)
    \/ ScanRejects
    \/ \E fault \in {"none", "mkdir", "writeFile"} : Persist(fault)

SpecCli == InitCli /\ [][NextCli]_vars

---------------------------------------------------------------------------
(* Claims checked under SpecDoc *)

LastBlock == SampleBlocks[docHistory[Len(docHistory)]]

\* C2: the description parseDocBlock returns is the block's free text alone
\* (delimiters and line decoration stripped, annotation lines left out,
\* lines joined by single spaces), undefined when the block has no free
\* text; and the block "List users / @param {string} status /
\* @responseExample 200 {"users":[]}" yields description "List users",
\* parameters [{status, string, required}], requestBodySchema null and
\* response {status: 200, example: {users: []}}.
C2_DescriptionIsFreeText ==
    docHistory # <<>> =>
        /\ docResult.description =
              (IF LastBlock.free = <<>> THEN Undefined ELSE Str(LastBlock.free))
        /\ (LastBlock.block = Block(BlockUsers) /\ Len(docHistory) = 1 =>
              docResult =
                 [description |-> Str(<<"List", " ", "users">>),
                  params |-> <<[name |-> "status", type |-> "string", required |-> TRUE]>>,
                  requestBodySchema |-> NullSchema,
                  response |-> Response(200, TRUE, <<JsonUsers>>)])

\* The offsets (from 1) of the annotations @tag of a block.
AnnotationsOf(block, tag) ==
    {k \in 1..(Len(block.text) - 1) : block.text[k] = "@" /\ block.text[k + 1] = tag}

\* C15: in every call of parseDocBlock, whatever calls came before it, a
\* block with one or more well-formed "@responseExample STATUS BODY"
\* annotations yields a response that is not null and is taken from the
\* first of them: it has the status of the first, later ones are ignored.
C15_ResponseFromFirstExample ==
    (docHistory # <<>> /\ AnnotationsOf(LastBlock.block, "responseExample") # {}) =>
        /\ ~docResult.response.isNull
        /\ docResult.response.status =
              StatusNumber[LastBlock.block.text[
                  Min(AnnotationsOf(LastBlock.block, "responseExample")) + 3]]

\* C16: in every call of parseDocBlock, a @requestBody whose text is no
\* JSON yields requestBodySchema = {schema: <the trimmed text>}, never null,
\* and a @responseExample whose body is no JSON yields a response whose
\* example is the trimmed text of the body; for the block "@requestBody
\* users ok / @responseExample 404 ok" that is a schema object and the
\* response {status: 404, example: "ok"}.
C16_RawTextFallback ==
    (docHistory # <<>> /\ LastBlock.block = Block(BlockRaw)) =>
        /\ docResult.requestBodySchema.kind = "schema"
        /\ docResult.requestBodySchema.text # <<>>
        /\ docResult.response = Response(404, FALSE, <<"ok">>)

---------------------------------------------------------------------------
(* Claims checked under SpecBlock *)

\* The offsets of content at which "/**" stands.
Openings(content) ==
    {i \in 0..Len(content) :
        At(content, i) = "/" /\ At(content, i + 1) = "*" /\ At(content, i + 2) = "*"}

\* The offsets behind the three characters of the opening at i at which
\* "*/" stands and ends at or before index.
ClosesBefore(content, i, index) ==
    {j \in (i + 3)..(index - 2) : At(content, j) = "*" /\ At(content, j + 1) = "/"}

\* The openings whose block, up to its first following close, lies
\* entirely before index.
CompleteBefore(content, index) ==
    {i \in Openings(content) : ClosesBefore(content, i, index) # {}}

\* The offset behind the block that opens at i.
BlockEnd(content, i, index) == Min(ClosesBefore(content, i, index)) + 2

BlockAt(content, i, index) == Block(Slice(content, i, BlockEnd(content, i, index)))

\* The opening of the last block a scan from offset from finds before
\* index, each search resuming behind the block found before; last when it
\* finds none.
RECURSIVE LastScanned(_, _, _, _)
LastScanned(content, index, from, last) ==
    LET ahead == {i \in CompleteBefore(content, index) : i >= from}
    IN  IF ahead = {} THEN last
        ELSE LastScanned(content, index, BlockEnd(content, Min(ahead), index), Min(ahead))

\* C14 as stated: extractDocBlock(content, index) returns the last complete
\* block, from an opening to its first following close, that lies entirely
\* before index, and null when there is none; the result depends on
\* (content, index) alone.
C14_LastCompleteBlock ==
    LET content == docBlock.content
        index == docBlock.index
    IN  docBlock.result =
            IF CompleteBefore(content, index) = {} THEN NullBlock
            ELSE BlockAt(content, Max(CompleteBefore(content, index)), index)

\* C14, amended: extractDocBlock(content, index) returns the last of the
\* blocks that a scan of the text before index finds from left to right,
\* each from an opening to its first following close and each search
\* resuming behind the block found before, so that an opening inside a
\* block starts no block; null when there is none; no block that closes at
\* or after index is returned, and the result depends on (content, index)
\* alone.
C14_LastScannedBlock ==
    LET content == docBlock.content
        index == docBlock.index
    IN  docBlock.result =
            IF CompleteBefore(content, index) = {} THEN NullBlock
            ELSE BlockAt(content, LastScanned(content, index, 0, 0), index)

\* A call behind two blocks returned the second, and a call into the
\* second block returned the first.
C14_Witness ==
    /\ docBlock.content = ContentTwoBlocks
    /\ \/ docBlock.index = Len(ContentTwoBlocks)
          /\ docBlock.result = Block(<<"/", "*", "*", " ", "user", " ", "*", "/">>)
       \/ docBlock.index = 18
          /\ docBlock.result = Block(<<"/", "*", "*", " ", "users", " ", "*", "/">>)

---------------------------------------------------------------------------
(* Claims checked under Spec *)

Range(seq) == {seq[i] : i \in DOMAIN seq}

\* The scans that have returned a ScanResult so far.
Resolved == {i \in DOMAIN results : results[i].ok}

\* C1: with the default plugins, a tree of one file that holds exactly one
\* well-formed, documented route declaration of a built-in matcher yields
\* exactly one endpoint, with the method, path and framework of that
\* declaration.
C1_OneDeclarationOneEndpoint ==
    (/\ plugins = createDefaultPlugins /\ Len(tree) = 1 /\ tree[1].single
     /\ results # <<>> /\ results[1].ok)
    => /\ Len(results[1].endpoints) = 1
       /\ results[1].endpoints[1].method = tree[1].method
       /\ results[1].endpoints[1].path = tree[1].route
       /\ results[1].endpoints[1].framework = tree[1].framework
       /\ results[1].endpoints[1].sourceFile = tree[1].path

\* C3: two scans in immediate succession of an unchanged tree return the
\* same endpoints and the same warnings.
C3_ScanIdempotent ==
    (Len(results) = 2 /\ results[1].ok /\ results[2].ok)
    => /\ results[2].endpoints = results[1].endpoints
       /\ results[2].warnings = results[1].warnings

\* C8: a plugin that throws on a file, in match or in extract, never aborts
\* the scan: every scan resolves with a ScanResult, and the endpoint of
\* every other plugin/file pair (here: of each fixed-endpoint plugin on each
\* file) is in it.
C8_PluginFailureNeverAborts ==
    \A i \in DOMAIN results :
        /\ results[i].ok
        /\ \A f \in DOMAIN tree, k \in DOMAIN plugins :
              plugins[k].kind = "static"
              => StaticEndpoint(tree[f].path) \in Range(results[i].endpoints)

\* The warnings owed for the files from index f on: one per (file, plugin)
\* pair, in file order then plugin-list order, whose plugin applies to the
\* file and whose extract throws on it.
RECURSIVE OwedWarnings(_, _)
OwedWarnings(f, k) ==
    IF f > Len(tree) THEN <<>>
    ELSE IF k > Len(plugins) THEN OwedWarnings(f + 1, 1)
    ELSE IF CustomApplies(plugins[k], tree[f]) /\ CustomExtractThrows(plugins[k], tree[f])
         THEN <<WarningOf(tree[f].path, plugins[k].name)>> \o OwedWarnings(f, k + 1)
         ELSE OwedWarnings(f, k + 1)

\* C9: the warnings of a ScanResult are exactly the (file, applicable
\* plugin) pairs whose extract threw, one string naming file and plugin per
\* pair, in file-then-plugin order: none for a file no plugin applies to,
\* for a plugin that applies and finds nothing, or for an extract that
\* returned.
C9_WarningsAreExtractFailures ==
    \A i \in Resolved : results[i].warnings = OwedWarnings(1, 1)

\* A scan has returned warnings, from a plugin list in which a plugin that
\* applies and finds nothing stands before the one that throws.
C9_Witness ==
    /\ Resolved # {}
    /\ \E i \in Resolved : Len(results[i].warnings) = 2
    /\ plugins[1] = EmptyPlugin

\* The endpoints the extract calls of the log returned, in call order.
RECURSIVE LoggedEndpoints(_)
LoggedEndpoints(log) ==
    IF log = <<>> THEN <<>>
    ELSE (IF Head(log).threw THEN <<>> ELSE Head(log).endpoints)
         \o LoggedEndpoints(Tail(log))

\* The plugins whose match depends on the file alone.
AppliesAlways(plugin, file) ==
    \/ plugin.kind \in {"static", "empty"}
    \/ plugin.kind = "throwsInExtract" /\ ~EndsWithTs(file.path)
    \/ plugin.kind = "nestjs" /\ EndsWithTs(file.path) /\ HasController(file.content)

\* C10: the endpoints of a scan are the concatenation of what the extract
\* calls returned; the calls are made in file order and, within a file, in
\* plugin-list order, one for every plugin that applies to the file; nothing
\* is removed or merged, also when two plugins return the same method and
\* path.
C10_EndpointsAreConcatenation ==
    /\ endpoints = LoggedEndpoints(callLog)
    /\ \A a, b \in DOMAIN callLog :
          a < b => \/ callLog[a].file < callLog[b].file
                   \/ /\ callLog[a].file = callLog[b].file
                      /\ callLog[a].plugin < callLog[b].plugin
    /\ \A f \in DOMAIN tree, k \in DOMAIN plugins :
          (f < fileIdx /\ AppliesAlways(plugins[k], tree[f]))
          => \E a \in DOMAIN callLog : callLog[a].file = f /\ callLog[a].plugin = k
    /\ (pc = "idle" /\ results # <<>> /\ results[Len(results)].ok)
       => results[Len(results)].endpoints = endpoints

\* A scan of two files has returned, in which two plugins yielded the same
\* method and path for each file.
C10_Witness ==
    /\ pc = "idle" /\ results # <<>> /\ results[Len(results)].ok
    /\ Len(tree) = 2
    /\ \E a, b \in DOMAIN endpoints :
          /\ a < b /\ endpoints[a] = endpoints[b]
    /\ \E a, b \in DOMAIN endpoints :
          endpoints[a].sourceFile # endpoints[b].sourceFile

\* The endpoints the scans have produced: those of the scan under way and
\* those of the ScanResults returned.
ScannedEndpoints ==
    Range(endpoints) \cup UNION {Range(results[k].endpoints) : k \in DOMAIN results}

BuiltInFrameworks == {"express", "fastify", "nestjs"}

\* C12: every endpoint produced by the express, fastify and nestjs matchers
\* has one of the four methods GET, POST, PUT, DELETE, in upper case
\* whatever the case of the verb in the source (router.Post("/y") gives
\* POST /y); a verb outside the set, as in router.patch("/x"), gives no
\* endpoint.
C12_MethodIsOneOfFour ==
    /\ \A e \in ScannedEndpoints :
           e.framework \in BuiltInFrameworks =>
               /\ e.method \in {"GET", "POST", "PUT", "DELETE"}
               /\ e.path # <<"/x">>
    /\ \A i \in DOMAIN tree :
           (/\ pc = "loop" /\ i < fileIdx /\ tree[i] = FileVerbs
            /\ \E k \in DOMAIN plugins : plugins[k].kind = "express")
           => \E e \in Range(endpoints) :
                  /\ e.framework = "express" /\ e.sourceFile = FileVerbs.path
                  /\ e.path = <<"/y">> /\ e.method = "POST"

\* The file with the patch call and the mixed-case verb has been processed
\* and its Post declaration is among the endpoints.
C12_Witness ==
    /\ pc = "loop"
    /\ \E i \in DOMAIN tree : i < fileIdx /\ tree[i] = FileVerbs
    /\ \E e \in Range(endpoints) :
           e.framework = "express" /\ e.path = <<"/y">> /\ e.method = "POST"

\* The method and path of the endpoints that the matcher of framework has
\* produced from the file at filePath in the scan under way, in order.
MethodAndPath(framework, filePath) ==
    LET found == SelectSeq(endpoints,
                           LAMBDA e : e.framework = framework /\ e.sourceFile = filePath)
    IN  [k \in DOMAIN found |-> <<found[k].method, found[k].path>>]

\* C17: the path of a NestJS decorator is optional: @Get() without an
\* argument and @Post("") with an empty one each yield one endpoint with
\* the path "/", a quoted path yields that path, for each of @Get, @Post,
\* @Put and @Delete; so the file "@Get() @Post("") @Put("/z")
\* @Delete('/w')" yields GET /, POST /, PUT /z and DELETE /w.
C17_NestPathIsOptional ==
    \A i \in DOMAIN tree :
        (/\ pc = "loop" /\ i < fileIdx /\ tree[i] = FileNestPaths
         /\ \E k \in DOMAIN plugins : plugins[k].kind = "nestjs")
        => MethodAndPath("nestjs", FileNestPaths.path) =
              << <<"GET", <<"/">> >>, <<"POST", <<"/">> >>,
                 <<"PUT", <<"/z">> >>, <<"DELETE", <<"/w">> >> >>

---------------------------------------------------------------------------
(* Claims checked under SpecOut *)

\* The call before the latest one succeeded, and the latest one was made in
\* incremental mode and succeeded.
PersistedThenIncremental ==
    wr.status = "ok" /\ wr.incremental /\ wr.before.status = "ok"

SameMethodAndPath(a, b) == a.method = b.method /\ a.path = b.path

\* No two endpoints of the list share method and path.
PairwiseDistinct(data) ==
    \A i, j \in DOMAIN data : i # j => ~SameMethodAndPath(data[i], data[j])

\* C4, as stated: persisting R and then persisting the same endpoints in
\* incremental mode returns endpointsUnchanged = endpointsWritten = the
\* number of endpoints of R, for every endpoint list, lists in which several
\* endpoints share method and path included.
C4_RoundTrip ==
    (PersistedThenIncremental /\ wr.before.data = wr.data)
    => /\ wr.endpointsUnchanged = Len(wr.data)
       /\ wr.endpointsWritten = Len(wr.data)

\* C4, amended: persisting R and then persisting the same endpoints in
\* incremental mode returns endpointsUnchanged = endpointsWritten = the
\* number of endpoints of R, provided no two endpoints of R share method and
\* path.
C4_RoundTripDistinctKeys ==
    (PersistedThenIncremental /\ wr.before.data = wr.data /\ PairwiseDistinct(wr.data))
    => /\ wr.endpointsUnchanged = Len(wr.data)
       /\ wr.endpointsWritten = Len(wr.data)

\* Two endpoints of different method+path were persisted twice.
C4_Witness ==
    /\ PersistedThenIncremental /\ wr.before.data = wr.data
    /\ PairwiseDistinct(wr.data) /\ Len(wr.data) = 2
    /\ wr.endpointsUnchanged = 2

\* The second list is the first with the description of one endpoint changed.
DiffersInOneDescription(first, second) ==
    /\ Len(first) = Len(second)
    /\ \E i \in DOMAIN first :
          /\ second[i].description # first[i].description
          /\ second = [first EXCEPT ![i].description = second[i].description]

\* C5, as stated: when a scan of n endpoints is persisted and a scan that
\* differs from it only in the description of one endpoint is persisted in
\* incremental mode, the second call returns endpointsWritten = n and
\* endpointsUnchanged = n - 1.
C5_ChangeDetection ==
    (PersistedThenIncremental /\ DiffersInOneDescription(wr.before.data, wr.data))
    => /\ wr.endpointsWritten = Len(wr.data)
       /\ wr.endpointsUnchanged = Len(wr.data) - 1

\* C5, amended: the same, provided no two endpoints of the first scan share
\* method and path.
C5_ChangeDetectionDistinctKeys ==
    (/\ PersistedThenIncremental
     /\ DiffersInOneDescription(wr.before.data, wr.data)
     /\ PairwiseDistinct(wr.before.data))
    => /\ wr.endpointsWritten = Len(wr.data)
       /\ wr.endpointsUnchanged = Len(wr.data) - 1

\* Of two persisted endpoints of different method+path one had its
\* description changed, and the other was counted as unchanged.
C5_Witness ==
    /\ PersistedThenIncremental
    /\ DiffersInOneDescription(wr.before.data, wr.data)
    /\ PairwiseDistinct(wr.before.data) /\ Len(wr.data) = 2
    /\ wr.endpointsUnchanged = 1

\* The endpoints a reader of the snapshot file finds in it.
EndpointsOnDisk == [i \in DOMAIN disk.items |-> JSONParseValue(disk.items[i])]

\* C6: in both modes and whatever the prior snapshot holds, a successful
\* writeOutputJson leaves in the file exactly the endpoints of its input, in
\* the same order, none suppressed, and endpointsWritten is their number.
C6_FileHoldsCompleteResult ==
    wr.status = "ok"
    => /\ disk.kind = "file" /\ disk.root = "object" /\ disk.endpoints = "array"
       /\ EndpointsOnDisk = wr.data
       /\ wr.endpointsWritten = Len(wr.data)

\* An incremental call succeeded on two endpoints, one unchanged and one not.
C6_Witness ==
    /\ wr.status = "ok" /\ wr.incremental
    /\ Len(wr.data) = 2 /\ wr.endpointsUnchanged = 1
    /\ EndpointsOnDisk = wr.data

\* The file holds a JSON object whose endpoints are a list of objects with a
\* method and a path.
WellFormedSnapshot(file) ==
    /\ file.kind = "file" /\ file.root = "object" /\ file.endpoints = "array"
    /\ \A i \in DOMAIN file.items :
          /\ JSONParseValue(file.items[i]).type = "object"
          /\ JSONParseValue(file.items[i]).method.defined
          /\ JSONParseValue(file.items[i]).path.defined

\* C7: when the snapshot file is absent, no JSON, or JSON that is no
\* well-formed snapshot, writeOutputJson in incremental mode does not throw,
\* returns endpointsUnchanged = 0 and writes the new snapshot.
C7_CorruptSnapshotNeverFails ==
    (wr.status # "none" /\ wr.incremental /\ ~WellFormedSnapshot(wr.prior))
    => /\ wr.status = "ok"
       /\ wr.endpointsUnchanged = 0
       /\ EndpointsOnDisk = wr.data

---------------------------------------------------------------------------
(* Claims checked under SpecRead *)

\* The files of dir in listing order: its own source files, then those of
\* its subdirectories, one subdirectory after the other in readdir order.
RECURSIVE ListingOrder(_, _)
RECURSIVE NestedInOrder(_, _, _)
ListingOrder(lay, dir) == DirectFiles(lay, dir, 1) \o NestedInOrder(lay, dir, 1)

NestedInOrder(lay, dir, k) ==
    IF k > Len(lay[dir]) THEN <<>>
    ELSE (IF IsDirectoryEntry(lay[dir][k])
          THEN ListingOrder(lay, PathJoin(dir, lay[dir][k].name)) ELSE <<>>)
         \o NestedInOrder(lay, dir, k + 1)

\* C11: for a fixed directory tree the order of the files readAllFiles
\* returns, which is the order in which scanBackendProject processes them
\* and so the order of endpoints and warnings, is the same whatever the
\* order in which the directory reads of sibling subdirectories complete.
C11_DiscoveryOrderIsFixed ==
    reads[Root].status = "resolved" => reads[Root].files = ListingOrder(layout, Root)

\* The endpoints of the snapshot the call found in the file.
PriorEndpoints == [i \in DOMAIN wr.prior.items |-> JSONParseValue(wr.prior.items[i])]

\* The new endpoints counted as unchanged when, of the prior endpoints
\* with the method and path of a new one, the last decides.
EqualToLastPrior ==
    {i \in DOMAIN wr.data :
        \E j \in DOMAIN PriorEndpoints :
            /\ SameMethodAndPath(PriorEndpoints[j], wr.data[i])
            /\ \A k \in DOMAIN PriorEndpoints :
                   k > j => ~SameMethodAndPath(PriorEndpoints[k], wr.data[i])
            /\ JSONStringify(PriorEndpoints[j]) = JSONStringify(wr.data[i])}

\* C18: when several endpoints of the prior snapshot share method and
\* path, the last of them is the one a new endpoint is compared with: a new
\* endpoint counts as unchanged exactly when its serialization equals that
\* of the last prior endpoint with its method and path; and the new list is
\* written as it is, duplicates included.
C18_LastDuplicateWins ==
    (/\ wr.status = "ok" /\ wr.incremental
     /\ wr.prior.kind = "file" /\ wr.prior.root = "object"
     /\ wr.prior.endpoints = "array")
    => /\ wr.endpointsUnchanged = Cardinality(EqualToLastPrior)
       /\ wr.endpointsWritten = Len(wr.data)
       /\ [i \in DOMAIN disk.items |-> JSONParseValue(disk.items[i])] = wr.data

\* The prior snapshot held GET /a twice, described "x" and then "y"; the
\* new list holds both again and only the one described "y" was counted as
\* unchanged.
C18_Witness ==
    /\ wr.status = "ok" /\ wr.incremental
    /\ PriorEndpoints = <<EndpointA, EndpointA2>>
    /\ wr.data = <<EndpointA, EndpointA2>>
    /\ wr.endpointsUnchanged = 1 /\ wr.endpointsWritten = 2
    /\ Len(disk.items) = 2

---------------------------------------------------------------------------
(* Claims checked under SpecCli *)

\* C13: a file system failure aborts the run and commits no partial
\* snapshot: a failing readFile, mkdir or writeFile makes the run fail, a
\* rejected scan is followed by no persist, and after a failed run the
\* snapshot file holds the complete prior snapshot or the complete new
\* one, never a partially written text.
C13_FailureCommitsNothingPartial ==
    /\ cli.fault # "none" => cli.status = "failed"
    /\ cli.scan = "rejected" => ~cli.persisted /\ disk = cli.prior
    /\ cli.status = "failed" => disk \in {cli.prior, StringifyResult(cli.data)}

\* C19: the incremental mode of a generate run is resolved in layers: the
\* value of the command line when --incremental is given; otherwise the
\* value of the configuration file when the file is there, parses and
\* holds one; otherwise the default, true.  So a run without the flag, with
\* no configuration file or with one that says incremental: true, persists
\* in incremental mode.
C19_IncrementalIsLayered ==
    cli.status # "none" =>
        cli.incremental = IF cli.flag THEN TRUE
                          ELSE IF cli.config = "{\"incremental\":false}" THEN FALSE
                          ELSE TRUE

=============================================================================
